---- MODULE Spec2Model ----
(***************************************************************************)
(* Model of the pay-per-use summarization core of Lesson_1/object_model.py *)
(* AccountManager (ledger), MLModel / TextSummarizationModel (capability), *)
(* PDFFile (payload) and PredictionRequest (request).                      *)
(*                                                                         *)
(* Monetary amounts are Python floats in the source; they are modelled as  *)
(* exact integers (whole currency units), so rounding is not represented.  *)
(* Optional values are records with a kind field ("None" for None).        *)
(* Python strings that are processed character by character are sequences  *)
(* of one-character strings; descriptions and names are TLA+ strings.      *)
(***************************************************************************)
EXTENDS Integers, Sequences, FiniteSets, TLC

\* ------------------------------------------------------------------ bounds
\* largest balance an account may be opened with or a deposit may produce
MaxBalance == 2
\* largest number of records in the transaction log
MaxLog == 2
\* largest amount passed to deposit / withdraw
MaxAmount == 1
\* largest cost_per_request of the capability
MaxCost == 2

UserIds == {"u1", "u2"}
RequestIds == {"r1", "r2"}
\* the request ids built in the sequential specification
SeqRequestIds == {"r1"}
\* amounts a caller may pass, invalid (<= 0) ones included
Amounts == -1..MaxAmount
\* initial balances a caller may pass to create_account (not validated)
InitialBalances == -1..MaxBalance
\* cost_per_request values a capability may be built with (not validated)
Costs == -1..MaxCost

\* ------------------------------------------------------- enums and values
DEPOSIT == "deposit"
WITHDRAWAL == "withdrawal"

PENDING == "pending"
PROCESSING == "processing"
SUCCESS == "success"
ERROR == "error"
INSUFFICIENT_FUNDS == "insufficient_funds"

RequestStatus == {PENDING, PROCESSING, SUCCESS, ERROR, INSUFFICIENT_FUNDS}

\* name and max_input_length of the capability built in main()
ModelName == "text-summarizer"
MaxInputLength == 1000

\* Optional[str] / arbitrary payload values held by PDFFile._extracted_text
NoneValue == [kind |-> "None", text |-> << >>]
Str(s) == [kind |-> "str", text |-> s]
\* a truthy value that is not a string (set_extracted_text does not check)
NonStr == [kind |-> "int", text |-> << >>]

\* payloads a PDFFile may carry when a request is built
Payloads ==
    { NoneValue,
      Str(<< >>),
      Str(<<" ">>),
      Str(<<"a", ".", "b", ".", "c">>),
      NonStr }

\* Python truthiness of an extracted_text value
Truthy(v) == (v.kind = "str" /\ v.text # << >>) \/ v.kind = "int"

\* --------------------------------------------------------------- strings
RECURSIVE lstrip(_)
lstrip(s) == IF s # << >> /\ Head(s) = " " THEN lstrip(Tail(s)) ELSE s

RECURSIVE rstrip(_)
rstrip(s) ==
    IF s # << >> /\ s[Len(s)] = " " THEN rstrip(SubSeq(s, 1, Len(s) - 1)) ELSE s

\* str.strip()
strip(s) == lstrip(rstrip(s))

\* str.split(sep) for a one-character separator: a sequence of strings
RECURSIVE split_on(_, _, _)
split_on(s, sep, cur) ==
    IF s = << >> THEN << cur >>
    ELSE IF Head(s) = sep THEN << cur >> \o split_on(Tail(s), sep, << >>)
    ELSE split_on(Tail(s), sep, Append(cur, Head(s)))

\* str.split() with no argument: whitespace-separated, empty pieces dropped
RECURSIVE drop_empty(_)
drop_empty(parts) ==
    IF parts = << >> THEN << >>
    ELSE IF Head(parts) = << >> THEN drop_empty(Tail(parts))
    ELSE << Head(parts) >> \o drop_empty(Tail(parts))

split_ws(s) == drop_empty(split_on(s, " ", << >>))

\* sep.join(parts)
RECURSIVE join(_, _)
join(sep, parts) ==
    IF parts = << >> THEN << >>
    ELSE IF Len(parts) = 1 THEN parts[1]
    ELSE parts[1] \o sep \o join(sep, Tail(parts))

\* seq[:n]
take(s, n) == SubSeq(s, 1, IF Len(s) < n THEN Len(s) ELSE n)

\* ------------------------------------------- TextSummarizationModel
\* TextSummarizationModel.preprocess
preprocess(text) ==
    [cleaned_text |-> strip(text),
     length |-> Len(text),
     tokens |-> take(split_ws(text), MaxInputLength)]

\* TextSummarizationModel.predict
predict(processed_data) ==
    LET text == processed_data.cleaned_text
        sentences == split_on(text, ".", << >>)
        summary == IF Len(sentences) > 2
                   THEN join(<<".", " ">>, take(sentences, 2)) \o <<".">>
                   ELSE text
    IN [original_length |-> Len(text),
        summary_length |-> Len(summary),
        summary_text |-> summary]

\* TextSummarizationModel.postprocess
postprocess(prediction) == prediction.summary_text

\* MLModel.process: the outcome is a raised exception or a returned value
\* type(x).__name__ of a payload
TypeName(input_data) ==
    IF input_data.kind = "None" THEN "NoneType" ELSE input_data.kind

\* what text.strip() raises in preprocess when text is not a str
NoStrip(input_data) ==
    "'" \o TypeName(input_data) \o "' object has no attribute 'strip'"

\* process that tests the active flag only after preprocess has run
process_checks_late(is_active_flag, input_data) ==
    IF input_data.kind # "str"
    THEN [raised |-> TRUE, exc_type |-> "AttributeError",
          exc |-> NoStrip(input_data), value |-> << >>,
          ran |-> <<"preprocess">>]
    ELSE IF ~is_active_flag
    THEN [raised |-> TRUE, exc_type |-> "RuntimeError",
          exc |-> "Model is not active", value |-> << >>,
          ran |-> <<"preprocess">>]
    ELSE [raised |-> FALSE, exc_type |-> "", exc |-> "",
          value |-> postprocess(predict(preprocess(input_data.text))),
          ran |-> <<"preprocess", "predict", "postprocess">>]

\* MLModel.process; ran lists the stages the call has entered
process(is_active_flag, input_data) ==
    IF ~is_active_flag
    THEN [raised |-> TRUE, exc_type |-> "RuntimeError",
          exc |-> "Model is not active", value |-> << >>, ran |-> << >>]
    ELSE IF input_data.kind # "str"
    THEN [raised |-> TRUE, exc_type |-> "AttributeError",
          exc |-> NoStrip(input_data), value |-> << >>,
          ran |-> <<"preprocess">>]
    ELSE [raised |-> FALSE, exc_type |-> "", exc |-> "",
          value |-> postprocess(predict(preprocess(input_data.text))),
          ran |-> <<"preprocess", "predict", "postprocess">>]

\* ------------------------------------------------------ AccountManager
\* Transaction.__init__ (id and created_at are not represented)
Transaction(user_id, amount, transaction_type, description) ==
    [user_id |-> user_id, amount |-> amount,
     transaction_type |-> transaction_type, description |-> description]

\* dict item assignment _user_balances[user_id] = value
SetBalance(bal, user_id, value) ==
    [x \in DOMAIN bal \cup {user_id} |-> IF x = user_id THEN value ELSE bal[x]]

\* AccountManager.create_account
create_account(bal, user_id, initial_balance) ==
    IF user_id \in DOMAIN bal
    THEN [bal |-> bal, value |-> "ValueError"]
    ELSE [bal |-> SetBalance(bal, user_id, initial_balance), value |-> "None"]

\* AccountManager.get_balance
get_balance(bal, user_id) ==
    IF user_id \in DOMAIN bal THEN bal[user_id] ELSE 0

\* AccountManager.has_sufficient_balance
has_sufficient_balance(bal, user_id, amount) ==
    get_balance(bal, user_id) >= amount

\* deposit that does not validate the amount
deposit_unvalidated(bal, log, user_id, amount, description) ==
    LET b1 == IF user_id \notin DOMAIN bal
              THEN SetBalance(bal, user_id, 0)
              ELSE bal
    IN [bal |-> SetBalance(b1, user_id, b1[user_id] + amount),
        log |-> Append(log, Transaction(user_id, amount, DEPOSIT,
                                        description)),
        value |-> "True"]

\* deposit that opens the account before it validates the amount
deposit_validates_late(bal, log, user_id, amount, description) ==
    LET b1 == IF user_id \notin DOMAIN bal
              THEN SetBalance(bal, user_id, 0)
              ELSE bal
    IN IF amount <= 0
       THEN [bal |-> b1, log |-> log, value |-> "ValueError"]
       ELSE [bal |-> SetBalance(b1, user_id, b1[user_id] + amount),
             log |-> Append(log, Transaction(user_id, amount, DEPOSIT,
                                             description)),
             value |-> "True"]

\* deposit that credits the balance without recording a Transaction
deposit_unrecorded(bal, log, user_id, amount, description) ==
    IF amount <= 0
    THEN [bal |-> bal, log |-> log, value |-> "ValueError"]
    ELSE LET b1 == IF user_id \notin DOMAIN bal
                   THEN SetBalance(bal, user_id, 0)
                   ELSE bal
         IN [bal |-> SetBalance(b1, user_id, b1[user_id] + amount),
             log |-> log,
             value |-> "True"]

\* AccountManager.deposit
deposit(bal, log, user_id, amount, description) ==
    IF amount <= 0
    THEN [bal |-> bal, log |-> log, value |-> "ValueError"]
    ELSE LET b1 == IF user_id \notin DOMAIN bal
                   THEN create_account(bal, user_id, 0).bal
                   ELSE bal
         IN [bal |-> SetBalance(b1, user_id, b1[user_id] + amount),
             log |-> Append(log, Transaction(user_id, amount, DEPOSIT,
                                             description)),
             value |-> "True"]

\* withdraw that opens an account for a user who has none
withdraw_provisioning(bal, log, user_id, amount, description) ==
    IF amount <= 0
    THEN [bal |-> bal, log |-> log, value |-> "ValueError"]
    ELSE IF ~has_sufficient_balance(bal, user_id, amount)
    THEN [bal |-> IF user_id \in DOMAIN bal THEN bal
                  ELSE SetBalance(bal, user_id, 0),
          log |-> log, value |-> "False"]
    ELSE [bal |-> SetBalance(bal, user_id, bal[user_id] - amount),
          log |-> Append(log, Transaction(user_id, amount, WITHDRAWAL,
                                          description)),
          value |-> "True"]

\* withdraw that raises when the balance does not cover the amount
withdraw_raises_insufficient(bal, log, user_id, amount, description) ==
    IF amount <= 0 \/ ~has_sufficient_balance(bal, user_id, amount)
    THEN [bal |-> bal, log |-> log, value |-> "ValueError"]
    ELSE [bal |-> SetBalance(bal, user_id, bal[user_id] - amount),
          log |-> Append(log, Transaction(user_id, amount, WITHDRAWAL,
                                          description)),
          value |-> "True"]

\* withdraw that debits the balance twice for one recorded Transaction
withdraw_double(bal, log, user_id, amount, description) ==
    IF amount <= 0
    THEN [bal |-> bal, log |-> log, value |-> "ValueError"]
    ELSE IF ~has_sufficient_balance(bal, user_id, amount)
    THEN [bal |-> bal, log |-> log, value |-> "False"]
    ELSE [bal |-> SetBalance(bal, user_id, bal[user_id] - 2 * amount),
          log |-> Append(log, Transaction(user_id, amount, WITHDRAWAL,
                                          description)),
          value |-> "True"]

\* AccountManager.withdraw
withdraw(bal, log, user_id, amount, description) ==
    IF amount <= 0
    THEN [bal |-> bal, log |-> log, value |-> "ValueError"]
    ELSE IF ~has_sufficient_balance(bal, user_id, amount)
    THEN [bal |-> bal, log |-> log, value |-> "False"]
    ELSE [bal |-> SetBalance(bal, user_id, bal[user_id] - amount),
          log |-> Append(log, Transaction(user_id, amount, WITHDRAWAL,
                                          description)),
          value |-> "True"]

\* get_transaction_history that hands out the ledger's own list when no
\* user is given
get_transaction_history_shared(log, user_id) ==
    IF user_id # "None"
    THEN [same_object |-> FALSE,
          items |-> SelectSeq(log, LAMBDA t : t.user_id = user_id)]
    ELSE [same_object |-> TRUE, items |-> log]

\* AccountManager.get_transaction_history: a list comprehension over the
\* log when a user is given, log.copy() otherwise; either is a new list
\* object (same_object tells whether the list returned is the ledger's own)
get_transaction_history(log, user_id) ==
    IF user_id # "None"
    THEN [same_object |-> FALSE,
          items |-> SelectSeq(log, LAMBDA t : t.user_id = user_id)]
    ELSE [same_object |-> FALSE, items |-> log]

\* --------------------------------------------------- PredictionRequest
\* PredictionRequest.__init__ with the PDFFile it is given
PredictionRequest(user_id, extracted_text, model_cost) ==
    [user_id |-> user_id,
     extracted_text |-> extracted_text,
     status |-> PENDING,
     cost |-> model_cost,
     result |-> NoneValue,
     processed_at |-> "None"]

\* no-content branch that refunds and then reports success to the caller
pr_no_content_true(bal, log, req) ==
    LET d == deposit(bal, log, req.user_id, req.cost,
                     "Refund for failed processing")
    IN [bal |-> d.bal, log |-> d.log,
        req |-> [req EXCEPT !.status = ERROR],
        value |-> IF d.value = "ValueError" THEN "ValueError" ELSE "True"]

\* process_request, the else branch of the content test: no extracted text
pr_no_content(bal, log, req) ==
    LET d == deposit(bal, log, req.user_id, req.cost,
                     "Refund for failed processing")
    IN [bal |-> d.bal, log |-> d.log,
        req |-> [req EXCEPT !.status = ERROR],
        value |-> IF d.value = "ValueError" THEN "ValueError" ELSE "False"]

\* except branch that marks the request failed and keeps the money
pr_except_norefund(bal, log, req, exc) ==
    [bal |-> bal, log |-> log,
     req |-> [req EXCEPT !.status = ERROR],
     value |-> "False"]

\* process_request, the except branch: the capability raised
pr_except(bal, log, req, exc) ==
    LET d == deposit(bal, log, req.user_id, req.cost,
                     "Refund for processing error: " \o exc)
    IN [bal |-> d.bal, log |-> d.log,
        req |-> [req EXCEPT !.status = ERROR],
        value |-> IF d.value = "ValueError" THEN "ValueError" ELSE "False"]

\* process_request, the try block entered after a successful withdrawal
pr_try(bal, log, req, is_active_flag) ==
    IF Truthy(req.extracted_text)
    THEN LET out == process(is_active_flag, req.extracted_text)
         IN IF out.raised
            THEN pr_except(bal, log, [req EXCEPT !.status = PROCESSING],
                           out.exc)
            ELSE [bal |-> bal, log |-> log,
                  req |-> [req EXCEPT !.result = Str(out.value),
                                      !.status = SUCCESS,
                                      !.processed_at = "datetime"],
                  value |-> "True"]
    ELSE pr_no_content(bal, log, [req EXCEPT !.status = PROCESSING])

\* insufficient-funds branch that opens an empty account for the user
pr_insufficient_provisioning(bal, log, req) ==
    [bal |-> SetBalance(bal, req.user_id, get_balance(bal, req.user_id)),
     log |-> log,
     req |-> [req EXCEPT !.status = INSUFFICIENT_FUNDS],
     value |-> "False"]

\* process_request, the branch taken when the sufficiency test fails
pr_insufficient(bal, log, req) ==
    [bal |-> bal, log |-> log,
     req |-> [req EXCEPT !.status = INSUFFICIENT_FUNDS],
     value |-> "False"]

\* PredictionRequest.process_request, run to its return or raise
process_request(bal, log, req, is_active_flag) ==
    IF ~has_sufficient_balance(bal, req.user_id, req.cost)
    THEN pr_insufficient(bal, log, req)
    ELSE LET w == withdraw(bal, log, req.user_id, req.cost,
                           "Payment for " \o ModelName)
         IN IF w.value = "ValueError"
            THEN [bal |-> bal, log |-> log, req |-> req,
                  value |-> "ValueError"]
            ELSE IF w.value = "True"
            THEN pr_try(w.bal, w.log, req, is_active_flag)
            ELSE [bal |-> bal, log |-> log,
                  req |-> [req EXCEPT !.status = ERROR],
                  value |-> "False"]

\* ------------------------------------------------------------- state
VARIABLES
    user_balances,        \* AccountManager._user_balances
    transaction_history,  \* AccountManager._transaction_history
    cost_per_request,     \* MLModel._cost_per_request
    is_active,            \* MLModel._is_active
    requests,             \* the PredictionRequest objects built so far
    ret,                  \* the last call: its operation, the request it was
                          \* made on (if any) and what it returned or raised
    pc,                   \* where each concurrent caller stands in its call
    frame,                \* the arguments and locals of each caller's call
    opening_balances,     \* history: the balances when the callers started
    listing               \* the list object a caller holds, as returned by
                          \* get_transaction_history

vars == << user_balances, transaction_history, cost_per_request, is_active,
           requests, ret, pc, frame, opening_balances, listing >>

\* what only the concurrent specification changes
proc_vars == << pc, frame, opening_balances >>

\* the callers of the concurrent specification
Procs == {"p1", "p2"}

\* the frame of a caller that has not made its call
IdleFrame ==
    [op |-> "", req |-> "", user_id |-> "", amount |-> 0, description |-> "",
     tmp |-> 0, withdrawn |-> FALSE, refunded |-> FALSE, value |-> << >>,
     ret |-> "None"]

Call(op, arg, value) == [op |-> op, arg |-> arg, value |-> value]

\* no list has been handed out
NoListing == [same_object |-> FALSE, items |-> << >>]

\* AccountManager() and TextSummarizationModel(name, version, cost, max_len)
Init ==
    /\ user_balances = << >>
    /\ transaction_history = << >>
    /\ cost_per_request \in Costs
    /\ is_active = TRUE
    /\ requests = << >>
    /\ ret = Call("init", "", "None")
    /\ pc = [p \in Procs |-> "idle"]
    /\ frame = [p \in Procs |-> IdleFrame]
    /\ opening_balances = << >>
    /\ listing = NoListing

\* ----------------------------------------------------------- operations
CreateAccount(u, b) ==
    LET out == create_account(user_balances, u, b)
    IN /\ user_balances' = out.bal
       /\ ret' = Call("create_account", "", out.value)
       /\ UNCHANGED << transaction_history, cost_per_request, is_active,
                       requests >>
       /\ UNCHANGED << proc_vars, listing >>

Deposit(u, a) ==
    LET out == deposit(user_balances, transaction_history, u, a, "")
    IN /\ Len(out.log) <= MaxLog
       /\ \A x \in DOMAIN out.bal : out.bal[x] <= MaxBalance
       /\ user_balances' = out.bal
       /\ transaction_history' = out.log
       /\ ret' = Call("deposit", "", out.value)
       /\ UNCHANGED << cost_per_request, is_active, requests >>
       /\ UNCHANGED << proc_vars, listing >>

Withdraw(u, a) ==
    LET out == withdraw(user_balances, transaction_history, u, a, "")
    IN /\ Len(out.log) <= MaxLog
       /\ user_balances' = out.bal
       /\ transaction_history' = out.log
       /\ ret' = Call("withdraw", "", out.value)
       /\ UNCHANGED << cost_per_request, is_active, requests >>
       /\ UNCHANGED << proc_vars, listing >>

Activate ==
    /\ is_active' = TRUE
    /\ ret' = Call("activate", "", "None")
    /\ UNCHANGED << user_balances, transaction_history, cost_per_request,
                    requests >>
    /\ UNCHANGED << proc_vars, listing >>

Deactivate ==
    /\ is_active' = FALSE
    /\ ret' = Call("deactivate", "", "None")
    /\ UNCHANGED << user_balances, transaction_history, cost_per_request,
                    requests >>
    /\ UNCHANGED << proc_vars, listing >>

NewRequest(r, u, text) ==
    /\ r \notin DOMAIN requests
    /\ requests' = [x \in DOMAIN requests \cup {r} |->
                      IF x = r
                      THEN PredictionRequest(u, text, cost_per_request)
                      ELSE requests[x]]
    /\ ret' = Call("PredictionRequest", r, "None")
    /\ UNCHANGED << user_balances, transaction_history, cost_per_request,
                    is_active >>
    /\ UNCHANGED << proc_vars, listing >>

\* (mutant) the request holds the capability, not the price: the call
\* charges what the capability costs now
ProcessRequest_live_cost(r) ==
    /\ r \in DOMAIN requests
    /\ LET out == process_request(user_balances, transaction_history,
                                  [requests[r] EXCEPT
                                     !.cost = cost_per_request],
                                  is_active)
       IN /\ Len(out.log) <= MaxLog
          /\ user_balances' = out.bal
          /\ transaction_history' = out.log
          /\ requests' = [requests EXCEPT ![r] = out.req]
          /\ ret' = Call("process_request", r, out.value)
          /\ UNCHANGED << cost_per_request, is_active >>
          /\ UNCHANGED << proc_vars, listing >>

ProcessRequest(r) ==
    /\ r \in DOMAIN requests
    /\ LET out == process_request(user_balances, transaction_history,
                                  requests[r], is_active)
       IN /\ Len(out.log) <= MaxLog
          /\ user_balances' = out.bal
          /\ transaction_history' = out.log
          /\ requests' = [requests EXCEPT ![r] = out.req]
          /\ ret' = Call("process_request", r, out.value)
          /\ UNCHANGED << cost_per_request, is_active >>
          /\ UNCHANGED << proc_vars, listing >>

Next ==
    \/ \E u \in UserIds, b \in InitialBalances : CreateAccount(u, b)
    \/ \E u \in UserIds, a \in Amounts : Deposit(u, a)
    \/ \E u \in UserIds, a \in Amounts : Withdraw(u, a)
    \/ Activate
    \/ Deactivate
    \/ \E r \in SeqRequestIds, u \in UserIds, text \in Payloads :
          NewRequest(r, u, text)
    \/ \E r \in SeqRequestIds : ProcessRequest(r)

Spec == Init /\ [][Next]_vars

\* ------------------------------------------- a capability re-priced
\* MLModel keeps its price in the attribute _cost_per_request, which
\* __init__ assigns and the property cost_per_request reads; the class has
\* no setter, so a later change of price is an assignment of the attribute
\* by the code that owns the capability.
SetCostPerRequest(c) ==
    /\ c # cost_per_request
    /\ cost_per_request' = c
    /\ ret' = Call("_cost_per_request", "", "None")
    /\ UNCHANGED << user_balances, transaction_history, is_active,
                    requests >>
    /\ UNCHANGED << proc_vars, listing >>

\* payloads of the requests built while the capability is re-priced: one
\* without text (refunded) and one with text (summarised when active)
PricePayloads == { NoneValue, Str(<<"a", ".", "b", ".", "c">>) }

NextPrice ==
    \/ \E u \in UserIds, b \in InitialBalances : CreateAccount(u, b)
    \/ \E u \in UserIds, a \in Amounts : Deposit(u, a)
    \/ \E u \in UserIds, a \in Amounts : Withdraw(u, a)
    \/ Activate
    \/ Deactivate
    \/ \E r \in SeqRequestIds, u \in UserIds, text \in PricePayloads :
          NewRequest(r, u, text)
    \/ \E r \in SeqRequestIds : ProcessRequest(r)
    \/ \E c \in Costs : SetCostPerRequest(c)

SpecPrice == Init /\ [][NextPrice]_vars

\* ------------------------------------------- the capability called
\* a caller calls model.process(text) itself, without a request
CallProcess(text) ==
    LET out == process(is_active, text)
    IN /\ ret' = Call("process", "",
                      IF out.raised THEN out.exc_type ELSE "str")
       /\ UNCHANGED << user_balances, transaction_history, cost_per_request,
                       is_active, requests >>
       /\ UNCHANGED << proc_vars, listing >>

NextCapability ==
    \/ \E u \in UserIds, b \in InitialBalances : CreateAccount(u, b)
    \/ \E u \in UserIds, a \in Amounts : Deposit(u, a)
    \/ \E u \in UserIds, a \in Amounts : Withdraw(u, a)
    \/ Activate
    \/ Deactivate
    \/ \E r \in SeqRequestIds, u \in UserIds, text \in PricePayloads :
          NewRequest(r, u, text)
    \/ \E r \in SeqRequestIds : ProcessRequest(r)
    \/ \E text \in Payloads : CallProcess(text)

SpecCapability == Init /\ [][NextCapability]_vars

\* ------------------------------------------- a caller reads the log
\* a caller asks for the history of user u, or of everybody (u = "None"),
\* and keeps the list it is given
GetTransactionHistory(u) ==
    /\ listing' = get_transaction_history(transaction_history, u)
    /\ ret' = Call("get_transaction_history", "", "list")
    /\ UNCHANGED << user_balances, transaction_history, cost_per_request,
                    is_active, requests >>
    /\ UNCHANGED proc_vars

\* the caller empties the list it was given (list.clear()); a list is a
\* mutable object, so if it is the ledger's own list the log is emptied
ClearListing ==
    /\ listing.items # << >>
    /\ listing' = [listing EXCEPT !.items = << >>]
    /\ transaction_history' =
         IF listing.same_object THEN << >> ELSE transaction_history
    /\ ret' = Call("list.clear", "", "None")
    /\ UNCHANGED << user_balances, cost_per_request, is_active, requests >>
    /\ UNCHANGED proc_vars

NextHistory ==
    \/ \E u \in UserIds, b \in InitialBalances : CreateAccount(u, b)
    \/ \E u \in UserIds, a \in Amounts : Deposit(u, a)
    \/ \E u \in UserIds, a \in Amounts : Withdraw(u, a)
    \/ Activate
    \/ Deactivate
    \/ \E r \in SeqRequestIds, u \in UserIds, text \in PricePayloads :
          NewRequest(r, u, text)
    \/ \E r \in SeqRequestIds : ProcessRequest(r)
    \/ \E u \in UserIds \cup {"None"} : GetTransactionHistory(u)
    \/ ClearListing

SpecHistory == Init /\ [][NextHistory]_vars

\* ------------------------------------------- concurrent callers
\* The source takes no lock, so a call made by one thread can be
\* interleaved with the calls of another between any two accesses of the
\* shared objects. Each action below is one access of shared state (a test,
\* a load, a store, an append) together with the local computation that
\* follows it; the augmented assignments -= and += are a load and a store.

\* payloads of the requests the concurrent callers process
ConcPayloads == { NoneValue, Str(<<"a", ".", "b", ".", "c">>) }

\* the main thread has opened accounts, built the capability (and possibly
\* deactivated it) and one request per request id, and starts the callers;
\* users are interchangeable, so the first request is taken to be u1's
InitConc ==
    /\ user_balances \in [UserIds -> 0..MaxBalance]
    /\ transaction_history = << >>
    /\ cost_per_request \in Costs
    /\ is_active \in BOOLEAN
    /\ requests \in [RequestIds ->
                       {PredictionRequest(u, text, cost_per_request) :
                          u \in UserIds, text \in ConcPayloads}]
    /\ requests["r1"].user_id = "u1"
    /\ ret = Call("init", "", "None")
    /\ pc = [p \in Procs |-> "idle"]
    /\ frame = [p \in Procs |-> IdleFrame]
    /\ opening_balances = user_balances
    /\ listing = NoListing

Goto(p, label) == pc' = [pc EXCEPT ![p] = label]

\* the call of p returns (or raises) value
Return(p, f, value) ==
    /\ pc' = [pc EXCEPT ![p] = "done"]
    /\ frame' = [frame EXCEPT ![p] = [f EXCEPT !.ret = value]]

\* a thread calls request.process_request(account_manager)
BeginProcessRequest(p, r) ==
    /\ pc[p] = "idle"
    /\ r \in DOMAIN requests
    /\ Goto(p, "pr_check")
    /\ frame' = [frame EXCEPT ![p] =
                   [IdleFrame EXCEPT !.op = "process_request", !.req = r]]
    /\ UNCHANGED << user_balances, transaction_history, cost_per_request,
                    is_active, requests, ret, opening_balances, listing >>

\* a thread calls account_manager.withdraw(u, a)
BeginWithdraw(p, u, a) ==
    /\ pc[p] = "idle"
    /\ LET f == [IdleFrame EXCEPT !.op = "withdraw", !.user_id = u,
                                  !.amount = a]
       IN IF a <= 0
          THEN Return(p, f, "ValueError")
          ELSE Goto(p, "w_check") /\ frame' = [frame EXCEPT ![p] = f]
    /\ UNCHANGED << user_balances, transaction_history, cost_per_request,
                    is_active, requests, ret, opening_balances, listing >>

\* process_request: the sufficiency test, then the call of withdraw up to
\* its validation of the amount
PrCheck(p) ==
    /\ pc[p] = "pr_check"
    /\ LET r == frame[p].req
           req == requests[r]
       IN IF ~has_sufficient_balance(user_balances, req.user_id, req.cost)
          THEN /\ requests' = [requests EXCEPT
                                 ![r].status = INSUFFICIENT_FUNDS]
               /\ Return(p, frame[p], "False")
          ELSE IF req.cost <= 0
          THEN /\ Return(p, frame[p], "ValueError")
               /\ UNCHANGED requests
          ELSE /\ Goto(p, "w_check")
               /\ frame' = [frame EXCEPT ![p] =
                    [@ EXCEPT !.user_id = req.user_id, !.amount = req.cost,
                              !.description = "Payment for " \o ModelName]]
               /\ UNCHANGED requests
    /\ UNCHANGED << user_balances, transaction_history, cost_per_request,
                    is_active, ret, opening_balances, listing >>

\* withdraw: the sufficiency test
WCheck(p) ==
    /\ pc[p] = "w_check"
    /\ IF ~has_sufficient_balance(user_balances, frame[p].user_id,
                                  frame[p].amount)
       THEN IF frame[p].op = "process_request"
            THEN Goto(p, "pr_fail") /\ UNCHANGED frame
            ELSE Return(p, frame[p], "False")
       ELSE Goto(p, "w_load") /\ UNCHANGED frame
    /\ UNCHANGED << user_balances, transaction_history, cost_per_request,
                    is_active, requests, ret, opening_balances, listing >>

\* withdraw: the load of _user_balances[user_id] -= amount
WLoad(p) ==
    /\ pc[p] = "w_load"
    /\ frame' = [frame EXCEPT ![p].tmp = user_balances[frame[p].user_id]]
    /\ Goto(p, "w_store")
    /\ UNCHANGED << user_balances, transaction_history, cost_per_request,
                    is_active, requests, ret, opening_balances, listing >>

\* withdraw: the store of _user_balances[user_id] -= amount
WStore(p) ==
    /\ pc[p] = "w_store"
    /\ user_balances' = SetBalance(user_balances, frame[p].user_id,
                                   frame[p].tmp - frame[p].amount)
    /\ Goto(p, "w_append")
    /\ UNCHANGED << frame, transaction_history, cost_per_request, is_active,
                    requests, ret, opening_balances, listing >>

\* withdraw: the Transaction is appended and True returned
WAppend(p) ==
    /\ pc[p] = "w_append"
    /\ transaction_history' =
         Append(transaction_history,
                Transaction(frame[p].user_id, frame[p].amount, WITHDRAWAL,
                            frame[p].description))
    /\ LET f == [frame[p] EXCEPT !.withdrawn = TRUE]
       IN IF f.op = "process_request"
          THEN Goto(p, "pr_processing") /\ frame' = [frame EXCEPT ![p] = f]
          ELSE Return(p, f, "True")
    /\ UNCHANGED << user_balances, cost_per_request, is_active, requests,
                    ret, opening_balances, listing >>

\* (mutant) the failed withdrawal is treated like a failed processing: the
\* cost that was never taken is refunded
PrFail_refunds(p) ==
    /\ pc[p] = "pr_fail"
    /\ requests' = [requests EXCEPT ![frame[p].req].status = ERROR]
    /\ Goto(p, "d_check")
    /\ frame' = [frame EXCEPT ![p].description =
                   "Refund for failed processing"]
    /\ UNCHANGED << user_balances, transaction_history, cost_per_request,
                    is_active, ret, opening_balances, listing >>

\* process_request: withdraw returned False after the test had passed
PrFail(p) ==
    /\ pc[p] = "pr_fail"
    /\ requests' = [requests EXCEPT ![frame[p].req].status = ERROR]
    /\ Return(p, frame[p], "False")
    /\ UNCHANGED << user_balances, transaction_history, cost_per_request,
                    is_active, ret, opening_balances, listing >>

\* process_request: status = PROCESSING
PrProcessing(p) ==
    /\ pc[p] = "pr_processing"
    /\ requests' = [requests EXCEPT ![frame[p].req].status = PROCESSING]
    /\ Goto(p, "pr_content")
    /\ UNCHANGED << frame, user_balances, transaction_history,
                    cost_per_request, is_active, ret, opening_balances,
                    listing >>

\* process_request: the content test and the call of model.process
PrContent(p) ==
    /\ pc[p] = "pr_content"
    /\ LET text == requests[frame[p].req].extracted_text
           out == process(is_active, text)
       IN IF ~Truthy(text)
          THEN Goto(p, "pr_no_content") /\ UNCHANGED frame
          ELSE IF out.raised
          THEN /\ Goto(p, "pr_except")
               /\ frame' = [frame EXCEPT ![p].description =
                              "Refund for processing error: " \o out.exc]
          ELSE /\ Goto(p, "pr_result")
               /\ frame' = [frame EXCEPT ![p].value = out.value]
    /\ UNCHANGED << user_balances, transaction_history, cost_per_request,
                    is_active, requests, ret, opening_balances, listing >>

\* process_request: _result is stored
PrResult(p) ==
    /\ pc[p] = "pr_result"
    /\ requests' = [requests EXCEPT
                      ![frame[p].req].result = Str(frame[p].value)]
    /\ Goto(p, "pr_success")
    /\ UNCHANGED << frame, user_balances, transaction_history,
                    cost_per_request, is_active, ret, opening_balances,
                    listing >>

\* process_request: status = SUCCESS
PrSuccess(p) ==
    /\ pc[p] = "pr_success"
    /\ requests' = [requests EXCEPT ![frame[p].req].status = SUCCESS]
    /\ Goto(p, "pr_processed_at")
    /\ UNCHANGED << frame, user_balances, transaction_history,
                    cost_per_request, is_active, ret, opening_balances,
                    listing >>

\* process_request: _processed_at is set and True returned
PrProcessedAt(p) ==
    /\ pc[p] = "pr_processed_at"
    /\ requests' = [requests EXCEPT
                      ![frame[p].req].processed_at = "datetime"]
    /\ Return(p, frame[p], "True")
    /\ UNCHANGED << user_balances, transaction_history, cost_per_request,
                    is_active, ret, opening_balances, listing >>

\* the call of deposit that follows status = ERROR, up to its validation
CallRefund(p, f) ==
    IF f.amount <= 0
    THEN Return(p, f, "ValueError")
    ELSE Goto(p, "d_check") /\ frame' = [frame EXCEPT ![p] = f]

\* process_request: status = ERROR in the branch without extracted text
PrNoContent(p) ==
    /\ pc[p] = "pr_no_content"
    /\ requests' = [requests EXCEPT ![frame[p].req].status = ERROR]
    /\ CallRefund(p, [frame[p] EXCEPT
                        !.description = "Refund for failed processing"])
    /\ UNCHANGED << user_balances, transaction_history, cost_per_request,
                    is_active, ret, opening_balances, listing >>

\* process_request: status = ERROR in the except branch
PrExcept(p) ==
    /\ pc[p] = "pr_except"
    /\ requests' = [requests EXCEPT ![frame[p].req].status = ERROR]
    /\ CallRefund(p, frame[p])
    /\ UNCHANGED << user_balances, transaction_history, cost_per_request,
                    is_active, ret, opening_balances, listing >>

\* deposit: the account is created when the user has none
DCheck(p) ==
    /\ pc[p] = "d_check"
    /\ user_balances' =
         IF frame[p].user_id \notin DOMAIN user_balances
         THEN create_account(user_balances, frame[p].user_id, 0).bal
         ELSE user_balances
    /\ Goto(p, "d_load")
    /\ UNCHANGED << frame, transaction_history, cost_per_request, is_active,
                    requests, ret, opening_balances, listing >>

\* deposit: the load of _user_balances[user_id] += amount
DLoad(p) ==
    /\ pc[p] = "d_load"
    /\ frame' = [frame EXCEPT ![p].tmp = user_balances[frame[p].user_id]]
    /\ Goto(p, "d_store")
    /\ UNCHANGED << user_balances, transaction_history, cost_per_request,
                    is_active, requests, ret, opening_balances, listing >>

\* deposit: the store of _user_balances[user_id] += amount
DStore(p) ==
    /\ pc[p] = "d_store"
    /\ user_balances' = SetBalance(user_balances, frame[p].user_id,
                                   frame[p].tmp + frame[p].amount)
    /\ Goto(p, "d_append")
    /\ UNCHANGED << frame, transaction_history, cost_per_request, is_active,
                    requests, ret, opening_balances, listing >>

\* deposit: the Transaction is appended; process_request returns False
DAppend(p) ==
    /\ pc[p] = "d_append"
    /\ transaction_history' =
         Append(transaction_history,
                Transaction(frame[p].user_id, frame[p].amount, DEPOSIT,
                            frame[p].description))
    /\ Return(p, [frame[p] EXCEPT !.refunded = TRUE], "False")
    /\ UNCHANGED << user_balances, cost_per_request, is_active, requests,
                    ret, opening_balances, listing >>

NextConc ==
    \E p \in Procs :
        \/ \E r \in RequestIds : BeginProcessRequest(p, r)
        \/ \E u \in UserIds, a \in Amounts : BeginWithdraw(p, u, a)
        \/ PrCheck(p)
        \/ WCheck(p)
        \/ WLoad(p)
        \/ WStore(p)
        \/ WAppend(p)
        \/ PrFail(p)
        \/ PrProcessing(p)
        \/ PrContent(p)
        \/ PrResult(p)
        \/ PrSuccess(p)
        \/ PrProcessedAt(p)
        \/ PrNoContent(p)
        \/ PrExcept(p)
        \/ DCheck(p)
        \/ DLoad(p)
        \/ DStore(p)
        \/ DAppend(p)

SpecConc == InitConc /\ [][NextConc]_vars

\* --------------------------------------- callers that can be interrupted
\* An interruption delivered from outside to a thread that is inside a call
\* (KeyboardInterrupt, SystemExit, a cancellation injected by the host) is a
\* BaseException. process_request has a single handler, `except Exception`,
\* and no `finally`; withdraw and deposit have none. The exception therefore
\* leaves the call at the point it has reached: nothing that the call had
\* still to do is done.
Interrupt(p) ==
    /\ pc[p] \notin {"idle", "done"}
    /\ Return(p, frame[p], "KeyboardInterrupt")
    /\ UNCHANGED << user_balances, transaction_history, cost_per_request,
                    is_active, requests, ret, opening_balances, listing >>

NextCancel ==
    \/ NextConc
    \/ \E p \in Procs : Interrupt(p)

SpecCancel == InitConc /\ [][NextCancel]_vars

\* ---------------------------------------------------- claim vocabulary
TerminalStatus == {SUCCESS, ERROR, INSUFFICIENT_FUNDS}

\* the balance a user holds in a ledger, 0 when there is no account
BalanceOf(bal, u) == IF u \in DOMAIN bal THEN bal[u] ELSE 0

\* the records a step appended to the log
Appended(old, new) == SubSeq(new, Len(old) + 1, Len(new))

IsPrefix(old, new) ==
    Len(old) <= Len(new) /\ SubSeq(new, 1, Len(old)) = old

\* signed sum of the records of user u: deposits count +, withdrawals -
RECURSIVE SignedSum(_, _)
SignedSum(log, u) ==
    IF log = << >> THEN 0
    ELSE (IF Head(log).user_id # u THEN 0
          ELSE IF Head(log).transaction_type = DEPOSIT THEN Head(log).amount
          ELSE 0 - Head(log).amount) + SignedSum(Tail(log), u)

\* the withdrawal / deposit records of a log
Withdrawals(log) == SelectSeq(log, LAMBDA t : t.transaction_type = WITHDRAWAL)
Deposits(log) == SelectSeq(log, LAMBDA t : t.transaction_type = DEPOSIT)

\* the step is a call of process_request on request r
IsProcessStep(r) ==
    /\ ret'.op = "process_request"
    /\ ret'.arg = r
    /\ r \in DOMAIN requests

\* ---------------------------------------------------------------- C1
\* C1: in every reachable state the balance of every user of the ledger
\* is non-negative.
C1_BalanceNonNegative ==
    \A u \in DOMAIN user_balances : user_balances[u] >= 0

\* ---------------------------------------------------------------- C2
\* C2: balance conservation. Every step other than the creation of an
\* account only appends to the log, and changes each user's balance by
\* exactly the signed sum of that user's appended records (a record per
\* balance mutation, of matching sign and amount); the creation of an
\* account sets the initial balance and appends nothing. Hence every balance
\* is its initial balance plus deposits minus successful withdrawals.
C2_BalanceConservation ==
    [][ /\ IsPrefix(transaction_history, transaction_history')
        /\ \A t \in {Appended(transaction_history, transaction_history')[i] :
                       i \in 1..(Len(transaction_history')
                                 - Len(transaction_history))} :
              t.amount > 0
        /\ IF ret'.op = "create_account"
           THEN transaction_history' = transaction_history
           ELSE \A u \in UserIds :
                  BalanceOf(user_balances', u) - BalanceOf(user_balances, u)
                  = SignedSum(Appended(transaction_history,
                                       transaction_history'), u)
      ]_vars

\* a deposit of 1 and then a withdrawal of 2 of the same user are recorded
C2_Witness ==
    /\ Len(transaction_history) = 2
    /\ transaction_history[1].transaction_type = DEPOSIT
    /\ transaction_history[1].amount = 1
    /\ transaction_history[2].transaction_type = WITHDRAWAL
    /\ transaction_history[2].amount = 2
    /\ transaction_history[2].user_id = transaction_history[1].user_id
    /\ user_balances[transaction_history[1].user_id] = 0

\* ---------------------------------------------------------------- C3
\* C3: a call of process_request on a request that is already in a
\* terminal state leaves balances and the transaction log unchanged.
C3_TerminalCallLeavesLedger ==
    [][ \A r \in RequestIds :
          (IsProcessStep(r) /\ requests[r].status \in TerminalStatus)
          => /\ user_balances' = user_balances
             /\ transaction_history' = transaction_history
      ]_vars

\* ---------------------------------------------------------------- C4
\* C4: once the status of a request is terminal, no step changes it.
C4_TerminalStatusStable ==
    [][ \A r \in DOMAIN requests :
          requests[r].status \in TerminalStatus
          => requests'[r].status = requests[r].status
      ]_vars

\* ---------------------------------------------------------------- C5
\* C5: whenever process_request ends in ERROR (in a sequential run this is
\* only reached from PROCESSING, after the withdrawal), the call appended
\* exactly a withdrawal and then a deposit, both of the request's user and
\* both of amount cost, and every balance is what it was before the call.
C5_RefundEqualsCharge ==
    [][ \A r \in RequestIds :
          (IsProcessStep(r) /\ requests'[r].status = ERROR)
          => LET added == Appended(transaction_history, transaction_history')
                 req == requests[r]
             IN /\ IsPrefix(transaction_history, transaction_history')
                /\ Len(added) = 2
                /\ added[1].transaction_type = WITHDRAWAL
                /\ added[2].transaction_type = DEPOSIT
                /\ added[1].user_id = req.user_id
                /\ added[2].user_id = req.user_id
                /\ added[1].amount = req.cost
                /\ added[2].amount = req.cost
                /\ user_balances' = user_balances
      ]_vars

\* a request whose capability raised has been charged and refunded
C5_Witness ==
    /\ ret.op = "process_request"
    /\ ret.arg \in DOMAIN requests
    /\ requests[ret.arg].status = ERROR
    /\ requests[ret.arg].cost = 2
    /\ Truthy(requests[ret.arg].extracted_text)
    /\ Len(transaction_history) >= 2

\* ---------------------------------------------------------------- C6
\* C6: a call of process_request on a PENDING request whose user's balance
\* (0 without an account) is below the cost leaves the request in
\* INSUFFICIENT_FUNDS and the ledger as it was: same accounts, same
\* balances, same log.
C6_InsufficientFundsNoMutation ==
    [][ \A r \in RequestIds :
          ( /\ IsProcessStep(r)
            /\ requests[r].status = PENDING
            /\ BalanceOf(user_balances, requests[r].user_id)
                 < requests[r].cost )
          => /\ requests'[r].status = INSUFFICIENT_FUNDS
             /\ user_balances' = user_balances
             /\ transaction_history' = transaction_history
      ]_vars

\* a request was turned down: its user holds less than the cost
C6_Witness ==
    /\ ret.op = "process_request"
    /\ ret.arg \in DOMAIN requests
    /\ requests[ret.arg].status = INSUFFICIENT_FUNDS
    /\ requests[ret.arg].cost = 2
    /\ requests[ret.arg].user_id \in DOMAIN user_balances
    /\ user_balances[requests[ret.arg].user_id] = 1
    /\ transaction_history = << >>

\* ---------------------------------------------------------------- C7
\* C7: a call of process_request that takes a PENDING request to a terminal
\* state records exactly one withdrawal (of the request's user, of amount
\* cost) if the terminal state is SUCCESS or ERROR and none otherwise; on
\* SUCCESS the user's balance is lower by cost, on INSUFFICIENT_FUNDS the
\* ledger is unchanged.
C7_NoDoubleCharge ==
    [][ \A r \in RequestIds :
          ( /\ IsProcessStep(r)
            /\ requests[r].status = PENDING
            /\ requests'[r].status \in TerminalStatus )
          => LET added == Appended(transaction_history, transaction_history')
                 taken == Withdrawals(added)
                 req == requests[r]
                 charged == requests'[r].status \in {SUCCESS, ERROR}
             IN /\ IsPrefix(transaction_history, transaction_history')
                /\ Len(taken) = (IF charged THEN 1 ELSE 0)
                /\ \A i \in 1..Len(taken) :
                      taken[i].user_id = req.user_id
                      /\ taken[i].amount = req.cost
                /\ requests'[r].status = SUCCESS
                   => /\ added = taken
                      /\ BalanceOf(user_balances', req.user_id)
                         = BalanceOf(user_balances, req.user_id) - req.cost
                /\ requests'[r].status = INSUFFICIENT_FUNDS
                   => /\ added = << >>
                      /\ user_balances' = user_balances
      ]_vars

\* a request has succeeded and its user has paid for it
C7_Witness ==
    /\ ret.op = "process_request"
    /\ ret.value = "True"
    /\ ret.arg \in DOMAIN requests
    /\ requests[ret.arg].status = SUCCESS
    /\ requests[ret.arg].cost = 2
    /\ Len(Withdrawals(transaction_history)) = 1

\* ---------------------------------------------------------------- C10
\* C10: a call of process_request made while the user's balance covers the
\* cost and the capability is deactivated, or its process raises on the
\* payload, returns normally (False), leaves the request in ERROR and every
\* balance as it was before the call.
C10_FailureCaptured ==
    [][ \A r \in RequestIds :
          ( /\ IsProcessStep(r)
            /\ BalanceOf(user_balances, requests[r].user_id)
                 >= requests[r].cost
            /\ \/ ~is_active
               \/ requests[r].extracted_text.kind = "int" )
          => /\ ret'.value = "False"
             /\ requests'[r].status = ERROR
             /\ user_balances' = user_balances
      ]_vars

\* ---------------------------------------------------------------- C8
AllDone == \A p \in Procs : pc[p] = "done"

\* the user and the amount of the withdrawal a caller attempts
AttemptUser(p) ==
    IF frame[p].op = "process_request"
    THEN requests[frame[p].req].user_id
    ELSE frame[p].user_id

AttemptAmount(p) ==
    IF frame[p].op = "process_request"
    THEN requests[frame[p].req].cost
    ELSE frame[p].amount

\* C8: when all callers concurrently attempt a withdrawal of the same
\* amount from the same user, whose balance covers exactly one of them,
\* then once all have returned exactly one withdrawal has succeeded, exactly
\* one withdrawal is recorded, and the balance is non-negative and equals
\* the opening balance plus the signed sum of the user's records.
C8_ExactlyOneWithdrawal ==
    \A u \in UserIds, a \in 1..(MaxAmount + MaxCost) :
       ( /\ AllDone
         /\ \A p \in Procs : AttemptUser(p) = u /\ AttemptAmount(p) = a
         /\ opening_balances[u] >= a
         /\ opening_balances[u] < 2 * a )
       => /\ Cardinality({p \in Procs : frame[p].withdrawn}) = 1
          /\ Len(Withdrawals(get_transaction_history(transaction_history,
                                                     u).items)) = 1
          /\ user_balances[u] >= 0
          /\ user_balances[u]
             = opening_balances[u] + SignedSum(transaction_history, u)

\* ---------------------------------------------------------------- C9
\* the caller has withdrawn the cost and its refund deposit is not complete
RefundPending(p) ==
    /\ frame[p].withdrawn
    /\ pc[p] \in {"d_check", "d_load", "d_store", "d_append"}

\* C9: no reachable state has a request in ERROR while the cost withdrawn
\* for it by the call that failed has not yet been refunded.
C9_RefundBeforeError ==
    \A p \in Procs :
       RefundPending(p) => requests[frame[p].req].status # ERROR

\* ---------------------------------------------------------------- C11
\* the call of p was a process_request that took the cost from the user
Charged(p) == frame[p].op = "process_request" /\ frame[p].withdrawn

\* C11: a request that reaches PROCESSING is never left there: once every
\* call has ended, no request is in PROCESSING; and a call of process_request
\* that was interrupted from outside after its withdrawal has still made the
\* refund deposit.
C11_ProcessingRunsToTerminal ==
    /\ AllDone => \A r \in DOMAIN requests : requests[r].status # PROCESSING
    /\ \A p \in Procs :
          (pc[p] = "done" /\ Charged(p) /\ frame[p].ret = "KeyboardInterrupt")
          => frame[p].refunded

\* ---------------------------------------------------------------- C12
\* C12: cost snapshot. A request is built with the cost the capability has
\* at that moment; no later step, a change of the capability's price
\* included, changes the cost of an existing request; and every record a
\* call of process_request appends (the withdrawal, the refund) is of the
\* request's user and of exactly that cost.
C12_CostSnapshot ==
    [][ /\ \A r \in DOMAIN requests :
             r \in DOMAIN requests' /\ requests'[r].cost = requests[r].cost
        /\ \A r \in DOMAIN requests' \ DOMAIN requests :
             requests'[r].cost = cost_per_request
        /\ \A r \in RequestIds :
             IsProcessStep(r)
             => LET added == Appended(transaction_history,
                                      transaction_history')
                IN \A i \in 1..Len(added) :
                      /\ added[i].amount = requests[r].cost
                      /\ added[i].user_id = requests[r].user_id
      ]_vars

\* a request built at price 2 was charged and refunded 2 although the
\* capability had been re-priced before the call
C12_Witness ==
    /\ ret.op = "process_request"
    /\ ret.arg \in DOMAIN requests
    /\ requests[ret.arg].status = ERROR
    /\ requests[ret.arg].cost = 2
    /\ cost_per_request = 1
    /\ Len(transaction_history) = 2
    /\ transaction_history[1].amount = 2
    /\ transaction_history[2].amount = 2
    /\ transaction_history[2].transaction_type = DEPOSIT

\* ---------------------------------------------------------------- C13
\* C13: a call of deposit or of withdraw with an amount <= 0 raises
\* ValueError and mutates nothing: the accounts, the balances and the
\* transaction log are what they were, whether the user has an account or
\* not.
C13_InvalidAmountNoMutation ==
    [][ \A u \in UserIds, a \in Amounts :
          ( /\ a <= 0
            /\ ret'.op \in {"deposit", "withdraw"}
            /\ (Deposit(u, a) \/ Withdraw(u, a)) )
          => /\ ret'.value = "ValueError"
             /\ user_balances' = user_balances
             /\ transaction_history' = transaction_history
      ]_vars

\* a deposit was refused for its amount while one user has an account with
\* a recorded transaction and the other has none
C13_Witness ==
    /\ ret.op = "deposit"
    /\ ret.value = "ValueError"
    /\ Cardinality(DOMAIN user_balances) = 1
    /\ Len(transaction_history) = 1

\* ---------------------------------------------------------------- C14
\* C14: a call of withdraw with a positive amount above the user's balance
\* (0 for a user without account) returns False, raises nothing and leaves
\* balances and log as they were; a call of withdraw that returns True has
\* lowered the user's balance by exactly the amount, left every other
\* balance alone and appended exactly one WITHDRAWAL Transaction of that
\* user and amount.
C14_WithdrawOutcome ==
    [][ \A u \in UserIds, a \in Amounts :
          (ret'.op = "withdraw" /\ Withdraw(u, a))
          => /\ (a > 0 /\ a > BalanceOf(user_balances, u))
                => /\ ret'.value = "False"
                   /\ user_balances' = user_balances
                   /\ transaction_history' = transaction_history
             /\ ret'.value = "True"
                => /\ u \in DOMAIN user_balances
                   /\ user_balances' =
                        SetBalance(user_balances, u, user_balances[u] - a)
                   /\ transaction_history' =
                        Append(transaction_history,
                               Transaction(u, a, WITHDRAWAL, ""))
      ]_vars

\* a withdrawal was turned down for lack of funds after one had succeeded
C14_Witness ==
    /\ ret.op = "withdraw"
    /\ ret.value = "False"
    /\ Len(transaction_history) = 1
    /\ transaction_history[1].transaction_type = WITHDRAWAL
    /\ user_balances[transaction_history[1].user_id] = 0

\* ---------------------------------------------------------------- C15
\* s can be obtained from t by leaving records out, the order being kept
RECURSIVE IsSubsequence(_, _)
IsSubsequence(s, t) ==
    IF s = << >> THEN TRUE
    ELSE IF t = << >> THEN FALSE
    ELSE IF Head(s) = Head(t) THEN IsSubsequence(Tail(s), Tail(t))
    ELSE IsSubsequence(s, Tail(t))

\* C15: the transaction log is append-only: across every step, whatever the
\* operation, the log before is a prefix of the log after. The list returned
\* by get_transaction_history holds the records asked for in the order of
\* their insertion, and it is a snapshot: when the caller mutates it, the
\* log of the ledger does not change.
C15_LogAppendOnly ==
    [][ /\ IsPrefix(transaction_history, transaction_history')
        /\ ret'.op = "get_transaction_history"
           => /\ IsSubsequence(listing'.items, transaction_history)
              /\ \E u \in UserIds \cup {"None"} :
                   \A i \in 1..Len(transaction_history) :
                      LET asked == u = "None"
                                   \/ transaction_history[i].user_id = u
                          n == Cardinality(
                                 {j \in 1..Len(listing'.items) :
                                    listing'.items[j]
                                    = transaction_history[i]})
                      IN IF asked THEN n >= 1 ELSE n = 0
        /\ ret'.op = "list.clear"
           => transaction_history' = transaction_history
      ]_vars

\* the caller has emptied the list it was given and the ledger still holds
\* its two records
C15_Witness ==
    /\ ret.op = "list.clear"
    /\ listing.items = << >>
    /\ Len(transaction_history) = 2

\* ---------------------------------------------------------------- C16
\* the descriptions process_request gives to its refund deposits
RefundDescriptions ==
    {"Refund for failed processing"} \cup
    {"Refund for processing error: " \o process(a, text).exc :
       a \in BOOLEAN, text \in Payloads}

\* C16: every Transaction of the log has a strictly positive amount and is
\* a DEPOSIT or a WITHDRAWAL; the refund of a failed process_request is in
\* the log as a DEPOSIT of a positive amount, never as a negative amount.
C16_PositiveAmounts ==
    \A i \in 1..Len(transaction_history) :
       LET t == transaction_history[i]
       IN /\ t.amount > 0
          /\ t.transaction_type \in {DEPOSIT, WITHDRAWAL}
          /\ t.description \in RefundDescriptions
             => t.transaction_type = DEPOSIT

\* a request of cost 2 failed and its refund is the last record of the log
C16_Witness ==
    /\ Len(transaction_history) = 2
    /\ transaction_history[1].transaction_type = WITHDRAWAL
    /\ transaction_history[2].description \in RefundDescriptions
    /\ transaction_history[2].transaction_type = DEPOSIT
    /\ transaction_history[2].amount = 2

\* ---------------------------------------------------------------- C17
\* C17: a call of process on a capability whose active flag is False raises
\* RuntimeError("Model is not active") whatever the payload, before
\* preprocess, predict or postprocess is entered, and returns no summary;
\* this is decided by the flag at the moment of the call, so activate and
\* deactivate take effect on the next call: an active capability given a
\* str runs the three stages and returns a summary. A process_request made
\* while the capability is deactivated stores no result and does not end in
\* SUCCESS.
C17_InactiveNeverSummarises ==
    [][ /\ \A text \in Payloads :
             (ret'.op = "process" /\ CallProcess(text))
             => LET out == process(is_active, text)
                IN IF ~is_active
                   THEN /\ ret'.value = "RuntimeError"
                        /\ out.exc = "Model is not active"
                        /\ out.ran = << >>
                   ELSE text.kind = "str"
                        => /\ ret'.value = "str"
                           /\ out.ran = <<"preprocess", "predict",
                                          "postprocess">>
        /\ \A r \in RequestIds :
             (IsProcessStep(r) /\ ~is_active)
             => /\ requests'[r].status # SUCCESS
                /\ requests'[r].result = requests[r].result
      ]_vars

\* the capability has produced the summary of a request, was deactivated,
\* and a call of process has then been refused
C17_Witness ==
    /\ ret.op = "process"
    /\ ret.value = "RuntimeError"
    /\ ~is_active
    /\ "r1" \in DOMAIN requests
    /\ requests["r1"].status = SUCCESS

\* ---------------------------------------------------------------- C18
\* C18: success path. A call of process_request made while the user's
\* balance covers the cost, the payload has extracted text (a non-empty
\* str) and the capability is active leaves the request in SUCCESS with the
\* summary stored and processed_at set, the user's balance lower by exactly
\* the cost, every other balance untouched, and exactly one Transaction
\* appended: a WITHDRAWAL of the request's user, of amount cost.
C18_SuccessPath ==
    [][ \A r \in RequestIds :
          ( /\ IsProcessStep(r)
            /\ BalanceOf(user_balances, requests[r].user_id)
                 >= requests[r].cost
            /\ requests[r].extracted_text.kind = "str"
            /\ requests[r].extracted_text.text # << >>
            /\ is_active )
          => LET req == requests[r]
                 added == Appended(transaction_history, transaction_history')
             IN /\ ret'.value = "True"
                /\ requests'[r].status = SUCCESS
                /\ requests'[r].result
                     = Str(process(is_active, req.extracted_text).value)
                /\ requests'[r].processed_at # "None"
                /\ \A u \in UserIds :
                      BalanceOf(user_balances', u)
                      = BalanceOf(user_balances, u)
                        - (IF u = req.user_id THEN req.cost ELSE 0)
                /\ IsPrefix(transaction_history, transaction_history')
                /\ Len(added) = 1
                /\ added[1].transaction_type = WITHDRAWAL
                /\ added[1].user_id = req.user_id
                /\ added[1].amount = req.cost
      ]_vars

\* ---------------------------------------------------------------- C19
\* C19: when the sufficiency test of process_request has passed and the
\* withdrawal that follows fails because another caller has spent the
\* balance in between, the call has appended no Transaction, and its next
\* and last step puts the request in ERROR and returns False without a
\* refund deposit: balances and log are left as that step found them.
C19_FailedWithdrawalNoRefund ==
    [][ \A p \in Procs :
          pc[p] = "pr_fail"
          => /\ ~frame[p].withdrawn
             /\ ~frame[p].refunded
             /\ pc'[p] # "pr_fail"
                => /\ pc'[p] = "done"
                   /\ frame'[p].ret = "False"
                   /\ ~frame'[p].withdrawn
                   /\ ~frame'[p].refunded
                   /\ requests'[frame[p].req].status = ERROR
                   /\ user_balances' = user_balances
                   /\ transaction_history' = transaction_history
      ]_vars

\* a process_request has ended in ERROR without a withdrawal of its own,
\* next to a withdraw whose single record is all the log holds and accounts
\* for the whole change of the user's balance
C19_Witness ==
    \E p \in Procs, q \in Procs :
       /\ p # q
       /\ AllDone
       /\ frame[p].op = "process_request"
       /\ frame[p].ret = "False"
       /\ ~frame[p].withdrawn
       /\ requests[frame[p].req].status = ERROR
       /\ frame[q].op = "withdraw"
       /\ frame[q].withdrawn
       /\ frame[q].user_id = requests[frame[p].req].user_id
       /\ Len(transaction_history) = 1
       /\ user_balances[frame[q].user_id]
          = opening_balances[frame[q].user_id] - frame[q].amount

\* ---------------------------------------------------------------- C20
\* C20: the set of accounts changes only in a call of create_account or of
\* deposit. A deposit of a positive amount to a user without account opens
\* the account at 0 and credits it, so that the new balance is the amount.
\* get_balance answers 0 for a user without account and
\* has_sufficient_balance compares that 0 with the amount; neither they nor
\* withdraw (nor process_request, which calls them) open an account.
C20_AccountsFrame ==
    [][ /\ DOMAIN user_balances' # DOMAIN user_balances
           => ret'.op \in {"create_account", "deposit"}
        /\ \A u \in UserIds, a \in Amounts :
             ( /\ ret'.op = "deposit"
               /\ Deposit(u, a)
               /\ a > 0
               /\ u \notin DOMAIN user_balances )
             => user_balances' = SetBalance(user_balances, u, 0 + a)
        /\ \A u \in UserIds, a \in Amounts :
             (ret'.op = "withdraw" /\ Withdraw(u, a))
             => DOMAIN user_balances' = DOMAIN user_balances
        /\ \A u \in UserIds \ DOMAIN user_balances :
             /\ get_balance(user_balances, u) = 0
             /\ \A a \in Amounts :
                  has_sufficient_balance(user_balances, u, a) <=> (0 >= a)
      ]_vars

\* a user without account was refused a withdrawal and still has no
\* account, while the other user got one by a deposit
C20_Witness ==
    /\ ret.op = "withdraw"
    /\ ret.value = "False"
    /\ Cardinality(DOMAIN user_balances) = 1
    /\ Len(transaction_history) = 1
    /\ transaction_history[1].transaction_type = DEPOSIT
    /\ transaction_history[1].user_id \in DOMAIN user_balances
    /\ user_balances[transaction_history[1].user_id] = 1

\* ---------------------------------------------------------------- C21
\* C21: in every reachable state, also after process_request has been
\* called again on the same request, a request holds a result or a
\* processed_at timestamp only if its status is SUCCESS.
C21_ResultOnlyOnSuccess ==
    \A r \in DOMAIN requests :
       (requests[r].result # NoneValue \/ requests[r].processed_at # "None")
       => requests[r].status = SUCCESS

\* ---------------------------------------------------------------- C22
\* C22: whenever a call of process_request returns (True or False, rather
\* than raising), the value returned is True exactly if the request is left
\* in SUCCESS, and the status it leaves is SUCCESS, ERROR or
\* INSUFFICIENT_FUNDS, never PENDING or PROCESSING.
C22_ReturnMatchesStatus ==
    [][ \A r \in RequestIds :
          (IsProcessStep(r) /\ ret'.value \in {"True", "False"})
          => /\ (ret'.value = "True") <=> (requests'[r].status = SUCCESS)
             /\ requests'[r].status \in {SUCCESS, ERROR, INSUFFICIENT_FUNDS}
             /\ requests'[r].status \notin {PENDING, PROCESSING}
      ]_vars

\* a call on a request that had succeeded before has returned False and
\* left the request in INSUFFICIENT_FUNDS
C22_Witness ==
    /\ ret.op = "process_request"
    /\ ret.value = "False"
    /\ ret.arg \in DOMAIN requests
    /\ requests[ret.arg].status = INSUFFICIENT_FUNDS
    /\ requests[ret.arg].result # NoneValue

\* ---------------------------------------------------------------- C23
\* C23: a call of process_request on a request whose cost is 0 or negative
\* passes the sufficiency test, has its withdrawal rejected for the
\* non-positive amount and lets that ValueError out; the request stays
\* PENDING and balances and transaction log are unchanged.
C23_NonPositiveCostRaises ==
    [][ \A r \in RequestIds :
          (IsProcessStep(r) /\ requests[r].cost <= 0)
          => /\ ret'.value = "ValueError"
             /\ requests'[r].status = PENDING
             /\ user_balances' = user_balances
             /\ transaction_history' = transaction_history
      ]_vars

====
